---- MODULE Spec2Model ----
(***************************************************************************)
(* Model of the update-polling and orchestration engine of GitHub Sentinel *)
(*   src/src/main.py                      run_daily_scan / run_weekly_scan *)
(*   src/src/services/update_service.py   fetch_updates, _apply_filters    *)
(*   src/src/services/subscription_service.py  update_last_checked         *)
(*   src/src/services/github_service.py   _make_request                    *)
(*   src/src/utils/scheduler.py           TaskScheduler                    *)
(*   src/src/models/subscription.py       to_dict / from_dict              *)
(*   src/src/services/subscription_service.py  the store operations        *)
(***************************************************************************)
EXTENDS Integers, Sequences, FiniteSets, TLC

(***************************************************************************)
(* Bounds of the model                                                     *)
(***************************************************************************)
NumSubs == 3
MaxConcurrent == 2
MaxClock == 1
MaxStamp == 2
MaxLen == 2
MaxRuns == 3
NumCallers == 2
RateLimit == 2
Hour == 2
MaxRateClock == 3
MaxCalls == 4
MaxT == 2
ZoneShift == 1
MaxSubs == 2

(***************************************************************************)
(* Values                                                                  *)
(***************************************************************************)
\* Python None for an Optional[datetime]
NoTime == -1
\* Python None for an Optional[str]; texts are sequences of characters
NoText == <<"None">>

SubIds == 1..NumSubs
FetchOrder == <<"commits", "issues", "pull_requests", "releases">>
Kinds == {"commits", "issues", "pull_requests", "releases"}

RECURSIVE SeqToSet(_)
SeqToSet(s) == IF s = <<>> THEN {} ELSE {Head(s)} \cup SeqToSet(Tail(s))

RECURSIVE Flatten(_)
Flatten(ss) == IF ss = <<>> THEN <<>> ELSE Head(ss) \o Flatten(Tail(ss))

RECURSIVE CountOf(_, _)
CountOf(r, s) ==
    IF s = <<>> THEN 0
    ELSE (IF Head(s) = r THEN 1 ELSE 0) + CountOf(r, Tail(s))

\* the orders in which a file may list the subscriptions: by id, or reversed
FileOrders == {[i \in 1..NumSubs |-> i], [i \in 1..NumSubs |-> NumSubs + 1 - i]}

(***************************************************************************)
(* Text: str.lower() and the substring test  kw in text                    *)
(***************************************************************************)
LowerChar(c) ==
    CASE c = "A" -> "a" [] c = "D" -> "d" [] c = "F" -> "f" [] c = "I" -> "i"
      [] c = "X" -> "x" [] OTHER -> c

AsWritten(t) == t

Lower(t) == [i \in 1..Len(t) |-> LowerChar(t[i])]

Contains(kw, t) ==
    \E i \in 0..(Len(t) - Len(kw)) : \A j \in 1..Len(kw) : t[i + j] = kw[j]

(***************************************************************************)
(* UpdateService._apply_filters                                            *)
(* A filter set is a record of the five rule keys; an absent or empty key  *)
(* is the empty set.  Evaluating the keyword rules on a record whose title *)
(* is None raises (None has no .lower()), and the except branch returns    *)
(* the list the function was called with.                                  *)
(***************************************************************************)
EmptyFilters ==
    [authors |-> {}, exclude_authors |-> {}, keywords |-> {},
     exclude_keywords |-> {}, update_types |-> {}]

AuthorsStage(us, allowed) ==
    IF allowed # {} THEN SelectSeq(us, LAMBDA u : u.author \in allowed) ELSE us

RECURSIVE RemoveWhileIterating(_, _, _)
RemoveWhileIterating(us, excluded, i) ==
    IF i > Len(us) THEN us
    ELSE IF us[i].author \in excluded
         THEN RemoveWhileIterating(SubSeq(us, 1, i - 1) \o SubSeq(us, i + 1, Len(us)),
                                   excluded, i + 1)
         ELSE RemoveWhileIterating(us, excluded, i + 1)

ExcludeAuthorsStageSkipping(us, excluded) ==
    IF excluded # {} THEN RemoveWhileIterating(us, excluded, 1) ELSE us

ExcludeAuthorsStage(us, excluded) ==
    IF excluded # {} THEN SelectSeq(us, LAMBDA u : u.author \notin excluded) ELSE us

\* kw in u.title.lower() or (u.description and kw in u.description.lower())
KeywordHit(u, kw) ==
    \/ Contains(Lower(kw), Lower(u.title))
    \/ (u.description # NoText /\ u.description # <<>>
        /\ Contains(Lower(kw), Lower(u.description)))

MatchesAny(u, kws) == \E kw \in kws : KeywordHit(u, kw)

\* u.title.lower() raises AttributeError when title is None
KeywordRaises(us, kws) == kws # {} /\ \E i \in 1..Len(us) : us[i].title = NoText

KeywordsStage(us, kws) ==
    IF kws # {} THEN SelectSeq(us, LAMBDA u : MatchesAny(u, kws)) ELSE us

ExcludeKeywordsStage(us, kws) ==
    IF kws # {} THEN SelectSeq(us, LAMBDA u : ~MatchesAny(u, kws)) ELSE us

UpdateTypesStage(us, types) ==
    IF types # {} THEN SelectSeq(us, LAMBDA u : u.update_type \in types) ELSE us

\* the rule evaluation raises: a keyword rule meets a record without title
FilterError(updates, filters) ==
    LET a2 == ExcludeAuthorsStage(AuthorsStage(updates, filters.authors),
                                  filters.exclude_authors)
    IN  \/ KeywordRaises(a2, filters.keywords)
        \/ KeywordRaises(KeywordsStage(a2, filters.keywords), filters.exclude_keywords)

\* except Exception: return filtered_updates
ApplyFiltersKeepsStage(updates, filters) ==
    LET a1 == AuthorsStage(updates, filters.authors)
        a2 == ExcludeAuthorsStage(a1, filters.exclude_authors)
    IN  IF KeywordRaises(a2, filters.keywords) THEN a2
        ELSE LET a3 == KeywordsStage(a2, filters.keywords)
             IN  IF KeywordRaises(a3, filters.exclude_keywords) THEN a3
                 ELSE UpdateTypesStage(ExcludeKeywordsStage(a3, filters.exclude_keywords),
                                       filters.update_types)

ApplyFilters(updates, filters) ==
    LET a1 == AuthorsStage(updates, filters.authors)
        a2 == ExcludeAuthorsStage(a1, filters.exclude_authors)
    IN  IF KeywordRaises(a2, filters.keywords) THEN updates
        ELSE LET a3 == KeywordsStage(a2, filters.keywords)
             IN  IF KeywordRaises(a3, filters.exclude_keywords) THEN updates
                 ELSE UpdateTypesStage(ExcludeKeywordsStage(a3, filters.exclude_keywords),
                                       filters.update_types)

(***************************************************************************)
(* Subscriptions of the store.  Owner and repository names are compared    *)
(* through their lexical rank.                                             *)
(***************************************************************************)
Owner(id) == IF id = 2 THEN "acme" ELSE "zeta"
RepoName(id) ==
    IF id = 1 THEN "api" ELSE IF id = 2 THEN "web" ELSE IF id = 3 THEN "cli" ELSE "docs"
LexRank(name) ==
    CASE name = "acme" -> 1 [] name = "api" -> 2 [] name = "cli" -> 3
      [] name = "commits" -> 4 [] name = "docs" -> 5 [] name = "issues" -> 6
      [] name = "pull_requests" -> 7 [] name = "releases" -> 8
      [] name = "web" -> 9 [] name = "zeta" -> 10

Frequency(id) == IF id = 1 THEN "daily" ELSE IF id <= 3 THEN "both" ELSE "weekly"
UpdateTypes(id) ==
    IF id = 1 THEN {"commits"} ELSE IF id = 2 THEN {"all"}
    ELSE IF id = 3 THEN {"issues", "releases"} ELSE {"releases"}
Filters(id) ==
    IF id = 1 THEN [EmptyFilters EXCEPT !.exclude_authors = {"bot"}] ELSE EmptyFilters

\* Subscription(...) with last_checked = None, is_active = True
NewSubscription(id) ==
    [id |-> id, owner |-> Owner(id), repo_name |-> RepoName(id),
     frequency |-> Frequency(id), update_types |-> UpdateTypes(id),
     is_active |-> TRUE, filters |-> Filters(id), last_checked |-> NoTime]

\* RepositoryUpdate
Update(sub, kind, author, stamp) ==
    [owner |-> sub.owner, repo_name |-> sub.repo_name, update_type |-> kind,
     title |-> <<"f", "i", "x">>, description |-> NoText,
     author |-> author, created_at |-> stamp]

(***************************************************************************)
(* GitHubService._make_request: the outcome for an HTTP status             *)
(***************************************************************************)
Statuses == {"200", "401", "403", "404", "500", "timeout"}

\* every status but 200, and a transport timeout, raise a plain Exception
MakeRequest(status) ==
    IF status = "200" THEN "json" ELSE "Exception"

(***************************************************************************)
(* list.sort(key=lambda x: x.created_at, reverse=True): a stable sort, so  *)
(* records with equal keys keep their order in the list.                   *)
(***************************************************************************)
SortsBeforeAscending(a, b) == a.created_at <= b.created_at

SortsBefore(a, b) == a.created_at >= b.created_at

RECURSIVE InsertSorted(_, _)
InsertSorted(sorted, u) ==
    IF sorted = <<>> THEN <<u>>
    ELSE IF SortsBefore(Head(sorted), u)
         THEN <<Head(sorted)>> \o InsertSorted(Tail(sorted), u)
         ELSE <<u>> \o sorted

RECURSIVE SortByCreatedAt(_)
SortByCreatedAt(us) ==
    IF us = <<>> THEN <<>>
    ELSE InsertSorted(SortByCreatedAt(SubSeq(us, 1, Len(us) - 1)), us[Len(us)])

(***************************************************************************)
(* State of one scan (run_daily_scan / run_weekly_scan) over the store     *)
(***************************************************************************)
VARIABLES
    store,       \* the subscriptions file, in file order
    now,         \* the wall clock read by datetime.now()
    phase,       \* position of the scan coroutine
    scan,        \* "daily" or "weekly"
    batch,       \* daily_subs / weekly_subs: the snapshot handed to fetch_updates
    credValid,   \* whether upstream accepts the token during this scan
    semValue,    \* asyncio.Semaphore(max_concurrent_requests)
    task,        \* the fetch_repo_updates coroutine of each subscription
    updates      \* the list returned by fetch_updates

passVars == <<store, now, phase, scan, batch, credValid, semValue, task, updates>>

(***************************************************************************)
(* State of a check of _apply_filters on one input                         *)
(***************************************************************************)
VARIABLES
    fUpdates,    \* the update list U
    fFilters,    \* the filter rules F
    fOnce,       \* _apply_filters(U, F)
    fTwice,      \* _apply_filters(_apply_filters(U, F), F)
    fPc          \* "input", "once", "twice"

filterVars == <<fUpdates, fFilters, fOnce, fTwice, fPc>>

(***************************************************************************)
(* State of the TaskScheduler                                              *)
(***************************************************************************)
VARIABLES
    isRunning,   \* TaskScheduler.is_running
    loopState,   \* self.loop: "none", "created" (never run) or "closed"
    clockPc,     \* the scheduler thread: "off", "polling", or a task name
                 \* when it is blocked in future.result() of that task
    due,         \* the registered jobs whose next_run has been reached
    unfinished,  \* per task, the coroutines handed to the loop and not done
    jobs,        \* the jobs registered with the schedule library
    stopPc,      \* TaskScheduler.stop: "none", or "joining" in thread.join
    extraPc      \* a second scheduler thread, started while the thread of
                 \* an earlier start() was still alive; positions as clockPc

schedVars == <<isRunning, loopState, clockPc, due, unfinished, jobs, stopPc, extraPc>>

(***************************************************************************)
(* State of one GitHubService and of the coroutines calling _make_request  *)
(***************************************************************************)
VARIABLES
    requests_made,  \* GitHubService.requests_made
    last_reset,     \* GitHubService.last_reset
    rNow,           \* the clock read by datetime.now(timezone.utc)
    caller,         \* per calling coroutine: its position in _make_request
    attempts,       \* the calls of _make_request so far
    issued          \* the requests sent upstream since last_reset was set

rateVars == <<requests_made, last_reset, rNow, caller, attempts, issued>>

(***************************************************************************)
(* State of the timestamps one subscription goes through: written by       *)
(* update_last_checked, stored as JSON, loaded by from_dict, used as since *)
(***************************************************************************)
VARIABLES
    zone,           \* the UTC offset of the machine's local time, in hours
    tNow,           \* the UTC instant of the clock, in hours
    tFile,          \* the 'last_checked' entry of the subscription in the JSON file
    tSaved,         \* the last_checked object update_last_checked set before saving
    tSub,           \* subscription.last_checked of the loaded Subscription
    tSince,         \* effective_since of the pass
    tDays,          \* the days argument of fetch_updates
    tCmp,           \* outcome of the last datetime comparison of a list call
    upstream,       \* creation instants of the records upstream holds
    returned,       \* creation instants of the records the last fetch returned
    tPc             \* position of the pass

timeVars == <<zone, tNow, tFile, tSaved, tSub, tSince, tDays, tCmp, upstream, returned, tPc>>

(***************************************************************************)
(* State of the subscription file and of the execution contexts using it   *)
(***************************************************************************)
VARIABLES
    data_file,      \* the subscriptions in SubscriptionService.data_file
    nextId,         \* stands for the next uuid4 of a new Subscription
    ctx,            \* per execution context: its position in a store operation
    acked           \* ids whose add_subscription returned True and were never deleted

storeVars == <<data_file, nextId, ctx, acked>>

IdleTask == [pc |-> "none", k |-> 1, updates |-> <<>>, failed |-> FALSE]

BatchIds == {batch[i].id : i \in 1..Len(batch)}
BatchSub(id) == CHOOSE b \in SeqToSet(batch) : b.id = id
InFlight == {id \in SubIds : task[id].pc = "fetching"}

\* SubscriptionService.get_active_subscriptions
ActiveSubscriptions(subs) == SelectSeq(subs, LAMBDA sub : sub.is_active)

\* [s for s in subscriptions if s.frequency.value in [kind, 'both']]
ByFrequency(subs, kind) ==
    SelectSeq(subs, LAMBDA sub : sub.frequency \in {kind, "both"})

\* the kind fetches _fetch_single_repo_updates issues, in program order
KindsToFetch(types) ==
    IF "all" \in types THEN FetchOrder
    ELSE SelectSeq(FetchOrder, LAMBDA kind : kind \in types)

\* asyncio.Semaphore.locked()
SemLockedNever(value) == FALSE

SemLocked(value) == value = 0

\* what upstream may answer to one kind fetch of a subscription
UpstreamStatuses == IF credValid THEN Statuses \ {"401"} ELSE {"401"}

AuthorsOf(sub, kind) == IF kind = "commits" /\ sub.id = 1 THEN {"dev", "bot"} ELSE {"dev"}

\* get_recent_commits / _issues / _pull_requests / _releases on a 200 answer
StampsOf(kind) == IF kind = "commits" THEN 1..MaxStamp ELSE {1}

KindResults(sub, kind) ==
    {<<>>} \cup {<<Update(sub, kind, a, t)>> : a \in AuthorsOf(sub, kind), t \in StampsOf(kind)}

\* the merge loop of fetch_updates over the gathered results
MergeUntilEmpty(results) ==
    LET RECURSIVE Go(_)
        Go(rs) == IF rs = <<>> \/ Head(rs) = <<>> THEN <<>> ELSE Head(rs) \o Go(Tail(rs))
    IN  Go(results)

MergeResults(results) == Flatten(results)

\* subscription.last_checked = now
CheckpointValueSince(clock) == IF scan = "weekly" THEN clock - 7 ELSE clock - 1

CheckpointValue(clock) == clock

(***************************************************************************)
(* datetime values: the wall-clock reading and the tzinfo, "naive" when     *)
(* tzinfo is None and "utc" for timezone.utc; times are counted in hours    *)
(***************************************************************************)
\* Python None for an Optional[datetime] of this kind
NoStamp == [wall |-> 0, tz |-> "none"]

\* datetime.now(): the local wall clock, no tzinfo
NowLocal(clock, offset) == [wall |-> clock + offset, tz |-> "naive"]

\* datetime.now(timezone.utc)
NowUtc(clock) == [wall |-> clock, tz |-> "utc"]

\* the days argument run_daily_scan / run_weekly_scan pass to fetch_updates
DaySpan(kind) == IF kind = "daily" THEN 1 ELSE 7

\* since = datetime.now() - timedelta(days=days)
DefaultSince(clock, offset, days) ==
    [wall |-> NowLocal(clock, offset).wall - 24 * days, tz |-> "naive"]

EffectiveSinceDefault(last_checked, since) == since

\* effective_since = subscription.last_checked or since
EffectiveSince(last_checked, since) ==
    IF last_checked # NoStamp THEN last_checked ELSE since

\* models/subscription.py ensure_timezone_aware
EnsureTimezoneAware(dt) ==
    IF dt = NoStamp THEN NoStamp
    ELSE IF dt.tz = "naive" THEN [dt EXCEPT !.tz = "utc"]
    ELSE dt

\* github_service.py ensure_utc_datetime; every aware value here is in UTC,
\* so astimezone(timezone.utc) leaves it as it is
EnsureUtcDatetime(dt) ==
    IF dt = NoStamp THEN NoStamp
    ELSE IF dt.tz = "naive" THEN [dt EXCEPT !.tz = "utc"]
    ELSE dt

\* JSON null
JsonNull == [digits |-> 0, offset |-> "null"]

\* datetime.isoformat(): the digits, and "+00:00" only for an aware value
IsoFormat(dt) == [digits |-> dt.wall, offset |-> IF dt.tz = "utc" THEN "+00:00" ELSE ""]

\* datetime.fromisoformat()
FromIsoFormat(text) ==
    [wall |-> text.digits, tz |-> IF text.offset = "" THEN "naive" ELSE "utc"]

\* the 'last_checked' entry of Subscription.to_dict
ToDictLastChecked(dt) == IF dt # NoStamp THEN IsoFormat(dt) ELSE JsonNull

\* the last_checked branch of Subscription.from_dict
FromDictLastChecked(text) ==
    IF text = JsonNull THEN NoStamp ELSE EnsureTimezoneAware(FromIsoFormat(text))

\* Python's a < b on datetimes: a naive and an aware operand raise TypeError
LessThan(a, b) ==
    IF a.tz # b.tz THEN "TypeError"
    ELSE IF a.wall < b.wall THEN "True" ELSE "False"

\* the UTC instant a datetime denotes on a machine with the given offset
Instant(dt, offset) == IF dt.tz = "naive" THEN dt.wall - offset ELSE dt.wall

TimeOff ==
    /\ zone = 0
    /\ tNow = 0
    /\ tFile = JsonNull
    /\ tSaved = NoStamp
    /\ tSub = NoStamp
    /\ tSince = NoStamp
    /\ tDays = 0
    /\ tCmp = "none"
    /\ upstream = {}
    /\ returned = {}
    /\ tPc = "off"

(***************************************************************************)
(* The subscription store: the list in data_file and the operations of     *)
(* SubscriptionService on a loaded list; each returns what the method      *)
(* returns (ok), whether it saved, and the list it saved                   *)
(***************************************************************************)
Repos == {<<"acme", "web">>, <<"zeta", "api">>}

\* a Subscription as the web and CLI handlers build it: active, never checked
StoredSubscription(id, repo) ==
    [id |-> id, owner |-> repo[1], repo_name |-> repo[2],
     is_active |-> TRUE, last_checked |-> "None"]

NoSub == [id |-> 0, owner |-> "", repo_name |-> "", is_active |-> FALSE, last_checked |-> "None"]

IdsOf(subs) == {subs[i].id : i \in 1..Len(subs)}

\* the first position holding the id, as the for loops find it
FirstWithId(subs, id) ==
    CHOOSE i \in 1..Len(subs) :
        subs[i].id = id /\ \A j \in 1..(i - 1) : subs[j].id # id

\* add_subscription
AddSubscription(subs, sub) ==
    IF \E i \in 1..Len(subs) :
          /\ subs[i].owner = sub.owner
          /\ subs[i].repo_name = sub.repo_name
          /\ subs[i].is_active
    THEN [ok |-> FALSE, save |-> FALSE, subs |-> subs]
    ELSE [ok |-> TRUE, save |-> TRUE, subs |-> Append(subs, sub)]

\* update_subscription
UpdateSubscription(subs, sub) ==
    IF sub.id \in IdsOf(subs)
    THEN [ok |-> TRUE, save |-> TRUE,
          subs |-> [subs EXCEPT ![FirstWithId(subs, sub.id)] = sub]]
    ELSE [ok |-> FALSE, save |-> FALSE, subs |-> subs]

\* deactivate_subscription
DeactivateSubscription(subs, id) ==
    IF id \in IdsOf(subs)
    THEN [ok |-> TRUE, save |-> TRUE,
          subs |-> [subs EXCEPT ![FirstWithId(subs, id)].is_active = FALSE]]
    ELSE [ok |-> FALSE, save |-> FALSE, subs |-> subs]

\* delete_subscription
DeleteSubscription(subs, id) ==
    LET kept == SelectSeq(subs, LAMBDA sub : sub.id # id)
    IN  IF Len(kept) < Len(subs)
        THEN [ok |-> TRUE, save |-> TRUE, subs |-> kept]
        ELSE [ok |-> FALSE, save |-> FALSE, subs |-> subs]

\* update_last_checked
UpdateLastCheckedIn(subs, ids) ==
    IF \E i \in 1..Len(subs) : subs[i].id \in ids
    THEN [ok |-> TRUE, save |-> TRUE,
          subs |-> [i \in 1..Len(subs) |->
                      IF subs[i].id \in ids
                      THEN [subs[i] EXCEPT !.last_checked = "now"] ELSE subs[i]]]
    ELSE [ok |-> FALSE, save |-> FALSE, subs |-> subs]

\* the execution contexts that call the store: the one running a pass and a
\* web or CLI handler
Contexts == {"scheduler", "web"}

NoOp == [pc |-> "off", op |-> "none", id |-> 0, sub |-> NoSub, ids |-> {}, loaded |-> <<>>]

StoreOff ==
    /\ data_file = <<>>
    /\ nextId = 1
    /\ ctx = [c \in Contexts |-> NoOp]
    /\ acked = {}

FilterOff ==
    /\ fUpdates = <<>>
    /\ fFilters = EmptyFilters
    /\ fOnce = <<>>
    /\ fTwice = <<>>
    /\ fPc = "off"

SchedOff ==
    /\ isRunning = FALSE
    /\ loopState = "none"
    /\ clockPc = "off"
    /\ due = {}
    /\ unfinished = [t \in {"daily", "weekly"} |-> 0]
    /\ jobs = {}
    /\ stopPc = "none"
    /\ extraPc = "off"

Callers == 1..NumCallers

NoCall == [pc |-> "off", wake |-> NoTime, status |-> "none", result |-> "none"]

RateOff ==
    /\ requests_made = 0
    /\ last_reset = 0
    /\ rNow = 0
    /\ caller = [c \in Callers |-> NoCall]
    /\ attempts = 0
    /\ issued = 0

Init ==
    /\ FilterOff
    /\ SchedOff
    /\ RateOff
    /\ TimeOff
    /\ StoreOff
    /\ store \in {[i \in 1..NumSubs |-> NewSubscription(p[i])] : p \in FileOrders}
    /\ now = 0
    /\ phase = "idle"
    /\ scan = "daily"
    /\ batch = <<>>
    /\ credValid = TRUE
    /\ semValue = MaxConcurrent
    /\ task = [id \in SubIds |-> IdleTask]
    /\ updates = <<>>

\* the scan returns (or its except branch has logged): all locals are dropped
ScanOver ==
    /\ phase' = "idle"
    /\ batch' = <<>>
    /\ credValid' = TRUE
    /\ semValue' = MaxConcurrent
    /\ task' = [id \in SubIds |-> IdleTask]
    /\ updates' = <<>>

\* the wall clock advances
Tick ==
    /\ now < MaxClock
    /\ now' = now + 1
    /\ UNCHANGED <<store, phase, scan, batch, credValid, semValue, task, updates, filterVars, schedVars, rateVars, timeVars, storeVars>>

\* run_daily_scan / run_weekly_scan up to the gather of fetch_updates
StartScan(kind) ==
    /\ phase = "idle"
    /\ LET subs == ByFrequency(ActiveSubscriptions(store), kind)
       IN  /\ subs # <<>>
           /\ batch' = subs
           /\ task' = [id \in SubIds |->
                         IF \E i \in 1..Len(subs) : subs[i].id = id
                         THEN [IdleTask EXCEPT !.pc = "waiting"] ELSE IdleTask]
    /\ scan' = kind
    /\ phase' = "fetching"
    /\ semValue' = MaxConcurrent
    /\ credValid' \in BOOLEAN
    /\ updates' = <<>>
    /\ UNCHANGED <<store, now, filterVars, schedVars, rateVars, timeVars, storeVars>>

\* async with semaphore: __aenter__
Acquire(id) ==
    /\ phase = "fetching"
    /\ task[id].pc = "waiting"
    /\ ~SemLocked(semValue)
    /\ semValue' = semValue - 1
    /\ task' = [task EXCEPT ![id].pc = "fetching"]
    /\ UNCHANGED <<store, now, phase, scan, batch, credValid, updates, filterVars, schedVars, rateVars, timeVars, storeVars>>

\* one kind fetch of _fetch_single_repo_updates; after the last one the
\* filters are applied, the coroutine returns and the semaphore is released
FetchKind(id) ==
    /\ phase = "fetching"
    /\ task[id].pc = "fetching"
    /\ LET sub == BatchSub(id)
           kinds == KindsToFetch(sub.update_types)
           kind == kinds[task[id].k]
       IN  \E status \in UpstreamStatuses :
             IF MakeRequest(status) = "Exception"
             THEN \* except Exception: return []
                  /\ task' = [task EXCEPT ![id] =
                                [pc |-> "done", k |-> task[id].k, updates |-> <<>>, failed |-> TRUE]]
                  /\ semValue' = semValue + 1
             ELSE \E res \in KindResults(sub, kind) :
                    LET acc == task[id].updates \o res
                    IN  IF task[id].k < Len(kinds)
                        THEN /\ task' = [task EXCEPT ![id].k = @ + 1, ![id].updates = acc]
                             /\ UNCHANGED semValue
                        ELSE /\ task' = [task EXCEPT ![id] =
                                  [pc |-> "done", k |-> task[id].k, failed |-> FALSE,
                                   updates |-> IF sub.filters # EmptyFilters
                                               THEN ApplyFilters(acc, sub.filters) ELSE acc]]
                             /\ semValue' = semValue + 1
    /\ UNCHANGED <<store, now, phase, scan, batch, credValid, updates, filterVars, schedVars, rateVars, timeVars, storeVars>>

\* asyncio.gather returns; the results are merged and sorted
Gather ==
    /\ phase = "fetching"
    /\ \A id \in BatchIds : task[id].pc = "done"
    /\ updates' = SortByCreatedAt(MergeResults([i \in 1..Len(batch) |-> task[batch[i].id].updates]))
    /\ phase' = "fetched"
    /\ UNCHANGED <<store, now, scan, batch, credValid, semValue, task, filterVars, schedVars, rateVars, timeVars, storeVars>>

\* if updates: ... else: "no new updates"
NoUpdates ==
    /\ phase = "fetched"
    /\ updates = <<>>
    /\ ScanOver
    /\ UNCHANGED <<store, now, scan, filterVars, schedVars, rateVars, timeVars, storeVars>>

\* generate_report and send_notifications return
Report ==
    /\ phase = "fetched"
    /\ updates # <<>>
    /\ phase' = "reported"
    /\ UNCHANGED <<store, now, scan, batch, credValid, semValue, task, updates, filterVars, schedVars, rateVars, timeVars, storeVars>>

\* generate_report or send_notifications raises: the scan's except branch
ReportFails ==
    /\ phase = "fetched"
    /\ updates # <<>>
    /\ ScanOver
    /\ UNCHANGED <<store, now, scan, filterVars, schedVars, rateVars, timeVars, storeVars>>

\* SubscriptionService.update_last_checked([s.id for s in batch])
UpdateLastChecked ==
    /\ phase = "reported"
    /\ store' = [i \in 1..Len(store) |->
                   IF store[i].id \in BatchIds
                   THEN [store[i] EXCEPT !.last_checked = CheckpointValue(now)]
                   ELSE store[i]]
    /\ phase' = "checkpointed"
    /\ UNCHANGED <<now, scan, batch, credValid, semValue, task, updates, filterVars, schedVars, rateVars, timeVars, storeVars>>

\* the scan logs its summary and returns
ScanDone ==
    /\ phase = "checkpointed"
    /\ ScanOver
    /\ UNCHANGED <<store, now, scan, filterVars, schedVars, rateVars, timeVars, storeVars>>

vars == <<passVars, filterVars, schedVars, rateVars, timeVars, storeVars>>

Next ==
    \/ Tick
    \/ \E kind \in {"daily", "weekly"} : StartScan(kind)
    \/ \E id \in SubIds : Acquire(id)
    \/ \E id \in SubIds : FetchKind(id)
    \/ Gather
    \/ NoUpdates
    \/ Report
    \/ ReportFails
    \/ UpdateLastChecked
    \/ ScanDone

Spec == Init /\ [][Next]_vars

(***************************************************************************)
(* Properties of the scan                                                  *)
(***************************************************************************)
LastCheckedIn(st, id) == (CHOOSE sub \in SeqToSet(st) : sub.id = id).last_checked
LastCheckedOf(id) == LastCheckedIn(store, id)

Returned == phase \in {"fetched", "reported", "checkpointed"}

RECURSIVE SumOver(_, _)
SumOver(S, f) ==
    IF S = {} THEN 0
    ELSE LET x == CHOOSE y \in S : TRUE IN f[x] + SumOver(S \ {x}, f)

\* C1: a subscription's last_checked, once set, never decreases over any
\* step of any scan or checkpoint write-back.
C1_LastCheckedMonotone ==
    [][store' # store =>
         \A id \in SubIds :
            LastCheckedOf(id) # NoTime => LastCheckedIn(store', id) >= LastCheckedOf(id)]_vars

\* subscription 1 is scanned daily only and subscription 2 by both scans: a
\* later scan has overwritten the checkpoint subscription 2 got with it
C1_Witness ==
    /\ phase = "checkpointed"
    /\ 2 \in BatchIds
    /\ LastCheckedOf(1) # NoTime
    /\ LastCheckedOf(2) > LastCheckedOf(1)

\* C2: a step changes a subscription's last_checked only when that
\* subscription's own fetch of the running scan has ended without failure.
C2_NoCheckpointAfterFailure ==
    [][store' # store =>
         \A id \in SubIds :
            LastCheckedIn(store', id) # LastCheckedOf(id)
                => task[id].pc = "done" /\ ~task[id].failed]_vars

\* C3: never more than max_concurrent_requests fetches are in flight, and
\* every slot not held by an in-flight fetch is free (a failed fetch has
\* given its slot back).
C3_ConcurrencyBound ==
    /\ Cardinality(InFlight) <= MaxConcurrent
    /\ semValue = MaxConcurrent - Cardinality(InFlight)

\* every slot is taken again after a failed fetch gave its slot back to a
\* fetch that had to wait for it
C3_Witness ==
    /\ Cardinality(BatchIds) > MaxConcurrent
    /\ Cardinality(InFlight) = MaxConcurrent
    /\ \E id \in BatchIds : task[id].pc = "done" /\ task[id].failed

\* C4: the list returned by fetch_updates is sorted by created_at,
\* descending.
C4_SortedDescending ==
    Returned =>
        \A i \in 1..(Len(updates) - 1) : updates[i].created_at >= updates[i + 1].created_at

\* the sort had to reorder records of different timestamps
C4_Witness ==
    /\ phase = "fetched"
    /\ Len(updates) >= 3
    /\ updates[1].created_at > updates[Len(updates)].created_at
    /\ updates # MergeResults([i \in 1..Len(batch) |-> task[batch[i].id].updates])

LexKey(u) == <<LexRank(u.owner), LexRank(u.repo_name), LexRank(u.update_type)>>

LexLeq(a, b) ==
    \/ a[1] < b[1]
    \/ a[1] = b[1] /\ a[2] < b[2]
    \/ a[1] = b[1] /\ a[2] = b[2] /\ a[3] <= b[3]

\* C5: in the returned list, records of equal created_at are in
\* (owner, repo, kind) lexical order.
C5_TiesInLexicalOrder ==
    Returned =>
        \A i \in 1..(Len(updates) - 1) :
            updates[i].created_at = updates[i + 1].created_at
                => LexLeq(LexKey(updates[i]), LexKey(updates[i + 1]))

\* C8: when a subscription's fetch ends, the records its kind fetches had
\* already returned are in its result, whether or not a later kind fetch
\* failed (subscriptions without filter rules).
C8_KindFailureAbsorbed ==
    [][\A id \in SubIds :
         (/\ task[id].pc = "fetching"
          /\ task'[id].pc = "done"
          /\ BatchSub(id).filters = EmptyFilters)
         => \A i \in 1..Len(task[id].updates) :
                task[id].updates[i] \in SeqToSet(task'[id].updates)]_vars

\* C9: with an invalid credential the scan is aborted by the first 401: no
\* subscription outcome is recorded and fetch_updates does not return.
C9_UnauthorizedAbortsPass ==
    (phase # "idle" /\ ~credValid) =>
        /\ \A id \in BatchIds : task[id].pc # "done"
        /\ ~Returned

\* C10: fetch_updates returns, and what it returns holds every record of
\* every subscription whose fetch succeeded, as often as that fetch
\* returned it, whatever subset of the other fetches failed.
C10_FailuresIsolated ==
    phase = "fetched" =>
        \A id \in BatchIds : ~task[id].failed =>
            \A i \in 1..Len(task[id].updates) :
                LET r == task[id].updates[i]
                IN  CountOf(r, updates) =
                        SumOver({j \in BatchIds : ~task[j].failed},
                                [j \in BatchIds |-> CountOf(r, task[j].updates)])

\* a fetch failed, and a subscription after it in the batch returned records
C10_Witness ==
    /\ phase = "fetched"
    /\ \E i, j \in 1..Len(batch) :
         /\ i < j
         /\ task[batch[i].id].failed
         /\ ~task[batch[j].id].failed
         /\ task[batch[j].id].updates # <<>>

\* what fetch_repo_updates hands to asyncio.gather for a subscription
Outcome(id) == task[id].updates

\* C11: the outcome of a subscription whose fetch failed differs from the
\* outcome of a fetch that succeeded and found no record (the empty list).
C11_FailureIsSurfaced ==
    \A id \in BatchIds :
        (task[id].pc = "done" /\ task[id].failed) => Outcome(id) # <<>>

(***************************************************************************)
(* _apply_filters on bounded inputs                                        *)
(***************************************************************************)
PassOff ==
    /\ store = <<>>
    /\ now = 0
    /\ phase = "off"
    /\ scan = "daily"
    /\ batch = <<>>
    /\ credValid = TRUE
    /\ semValue = MaxConcurrent
    /\ task = [id \in SubIds |-> IdleTask]
    /\ updates = <<>>

RecordPool ==
    {[owner |-> "zeta", repo_name |-> "api", update_type |-> kind, title |-> title,
      description |-> description, author |-> author, created_at |-> 1] :
        kind \in {"commits", "issues"},
        title \in {<<"F", "i", "x">>, <<"a", "d", "d">>, NoText},
        description \in {NoText, <<"f", "i", "x">>},
        author \in {"dev", "bot"}}

UpdateLists == UNION {[1..n -> RecordPool] : n \in 0..MaxLen}

FilterPool ==
    [authors : {{}, {"dev"}},
     exclude_authors : {{}, {"bot"}},
     keywords : {{}, {<<"F", "I", "X">>}},
     exclude_keywords : {{}, {<<"d", "d">>}},
     update_types : {{}, {"commits"}}]

InitFilter ==
    /\ PassOff
    /\ SchedOff
    /\ RateOff
    /\ TimeOff
    /\ StoreOff
    /\ fUpdates \in UpdateLists
    /\ fFilters \in FilterPool
    /\ fOnce = <<>>
    /\ fTwice = <<>>
    /\ fPc = "input"

\* filtered = _apply_filters(U, F)
FilterOnce ==
    /\ fPc = "input"
    /\ fOnce' = ApplyFilters(fUpdates, fFilters)
    /\ fPc' = "once"
    /\ UNCHANGED <<fUpdates, fFilters, fTwice, passVars, schedVars, rateVars, timeVars, storeVars>>

\* _apply_filters(filtered, F)
FilterTwice ==
    /\ fPc = "once"
    /\ fTwice' = ApplyFilters(fOnce, fFilters)
    /\ fPc' = "twice"
    /\ UNCHANGED <<fUpdates, fFilters, fOnce, passVars, schedVars, rateVars, timeVars, storeVars>>

NextFilter ==
    \/ FilterOnce
    \/ FilterTwice

SpecFilter == InitFilter /\ [][NextFilter]_vars

\* C6: applying the same filter rules to an already filtered list changes
\* nothing.
C6_FilterIdempotent == fPc = "twice" => fTwice = fOnce

\* the deny-list of authors removed some records and kept others
C6_Witness ==
    /\ fPc = "twice"
    /\ fFilters.exclude_authors # {}
    /\ fOnce # <<>>
    /\ Len(fOnce) < Len(fUpdates)

\* kw occurs in text, letters compared without regard to case
CaseInsensitiveIn(kw, text) ==
    \E i \in 0..(Len(text) - Len(kw)) :
        \A j \in 1..Len(kw) : LowerChar(text[i + j]) = LowerChar(kw[j])

Mentions(u, kw) ==
    \/ CaseInsensitiveIn(kw, u.title)
    \/ (u.description # NoText /\ CaseInsensitiveIn(kw, u.description))

\* the record passes every rule that is present in the rule set
Satisfies(u, filters) ==
    /\ (filters.authors # {} => u.author \in filters.authors)
    /\ u.author \notin filters.exclude_authors
    /\ (filters.keywords # {} => \E kw \in filters.keywords : Mentions(u, kw))
    /\ (\A kw \in filters.exclude_keywords : ~Mentions(u, kw))
    /\ (filters.update_types # {} => u.update_type \in filters.update_types)

\* C16: when no rule evaluation raises, _apply_filters returns exactly the
\* records of the input that pass every rule present, in their input order.
C16_ExactlyTheMatching ==
    (fPc \in {"once", "twice"} /\ ~FilterError(fUpdates, fFilters))
        => fOnce = SelectSeq(fUpdates, LAMBDA u : Satisfies(u, fFilters))

\* all five rules are present; of two different records the second is kept,
\* by a keyword that matches its title in another case, the first is removed
C16_Witness ==
    /\ fPc = "once"
    /\ \A key \in DOMAIN fFilters : fFilters[key] # {}
    /\ ~FilterError(fUpdates, fFilters)
    /\ Len(fUpdates) = 2
    /\ fOnce = <<fUpdates[2]>>
    /\ fUpdates[1] # fUpdates[2]
    /\ fUpdates[2].title = <<"F", "i", "x">>

\* C17: when a rule evaluation raises, _apply_filters returns the whole
\* list it was given, the records removed by earlier rules included.
C17_FailsOpen ==
    (fPc \in {"once", "twice"} /\ FilterError(fUpdates, fFilters))
        => fOnce = fUpdates

\* the author rules had removed a record before the keyword rule raised on
\* another, and both are in the result
C17_Witness ==
    /\ fPc = "once"
    /\ FilterError(fUpdates, fFilters)
    /\ Len(ExcludeAuthorsStage(AuthorsStage(fUpdates, fFilters.authors),
                               fFilters.exclude_authors)) < Len(fUpdates)
    /\ Len(fOnce) = 2

(***************************************************************************)
(* TaskScheduler: the clock thread and the jobs of the schedule library.   *)
(* _run_scheduler creates the event loop and never runs it, so a coroutine *)
(* handed to it by run_coroutine_threadsafe stays unfinished and           *)
(* future.result(timeout=300) ends by its timeout.                         *)
(***************************************************************************)
TaskNames == {"daily", "weekly"}

InitSched ==
    /\ PassOff
    /\ FilterOff
    /\ SchedOff
    /\ RateOff
    /\ TimeOff
    /\ StoreOff

\* schedule_daily_task / schedule_weekly_task
Register(t) ==
    /\ t \notin jobs
    /\ jobs' = jobs \cup {t}
    /\ UNCHANGED <<isRunning, loopState, clockPc, due, unfinished, stopPc, extraPc, passVars, filterVars, rateVars, timeVars, storeVars>>

\* TaskScheduler.start and the first statements of _run_scheduler in the
\* new thread
SchedulerStart ==
    /\ ~isRunning
    /\ stopPc = "none"
    /\ isRunning' = TRUE
    /\ loopState' = "created"
    /\ IF clockPc = "off"
       THEN clockPc' = "polling" /\ UNCHANGED extraPc
       ELSE extraPc = "off" /\ extraPc' = "polling" /\ UNCHANGED clockPc
    /\ UNCHANGED <<due, unfinished, jobs, stopPc, passVars, filterVars, rateVars, timeVars, storeVars>>

\* the wall clock reaches the next_run of a registered job
TriggerDue(t) ==
    /\ t \in jobs
    /\ t \notin due
    /\ due' = due \cup {t}
    /\ UNCHANGED <<isRunning, loopState, clockPc, unfinished, jobs, stopPc, extraPc, passVars, filterVars, rateVars, timeVars, storeVars>>

\* schedule.run_pending runs a due job: _schedule_async_task hands the
\* coroutine to the loop and blocks in future.result(timeout=300)
Dispatch(t) ==
    /\ isRunning
    /\ clockPc = "polling"
    /\ t \in due
    /\ loopState = "created"
    /\ unfinished[t] < MaxRuns
    /\ unfinished' = [unfinished EXCEPT ![t] = @ + 1]
    /\ clockPc' = t
    /\ UNCHANGED <<isRunning, loopState, due, jobs, stopPc, extraPc, passVars, filterVars, rateVars, timeVars, storeVars>>

AfterRunStillDue(pending, t) == pending

\* run_pending has run the job: its next_run moves to the next trigger
AfterRun(pending, t) == pending \ {t}

CaughtNever(exc) == FALSE

\* except asyncio.TimeoutError / except Exception in _schedule_async_task
Caught(exc) == exc \in {"TimeoutError", "Exception"}

\* self.loop.close() where the loop exists and is not closed
CloseLoop(state) == IF state = "created" THEN "closed" ELSE state

\* future.result raises after 300 s; the except branch logs, the job
\* returns and the schedule library sets its next_run.  An exception that
\* no branch caught would leave the while loop of _run_scheduler, whose
\* finally closes the event loop.
FutureTimeout(t) ==
    /\ clockPc = t
    /\ due' = AfterRun(due, t)
    /\ IF Caught("TimeoutError")
       THEN clockPc' = "polling" /\ UNCHANGED loopState
       ELSE clockPc' = "off" /\ loopState' = CloseLoop(loopState)
    /\ UNCHANGED <<isRunning, unfinished, jobs, stopPc, extraPc, passVars, filterVars, rateVars, timeVars, storeVars>>

\* the thread finds is_running false at the head of its while loop and
\* ends; its finally closes self.loop
ClockExit ==
    /\ clockPc = "polling"
    /\ ~isRunning
    /\ clockPc' = "off"
    /\ loopState' = CloseLoop(loopState)
    /\ UNCHANGED <<isRunning, due, unfinished, jobs, stopPc, extraPc, passVars, filterVars, rateVars, timeVars, storeVars>>

\* TaskScheduler.stop up to thread.join(timeout=5)
StopBegin ==
    /\ isRunning
    /\ stopPc = "none"
    /\ isRunning' = FALSE
    /\ jobs' = {}
    /\ due' = {}
    /\ stopPc' = "joining"
    /\ UNCHANGED <<loopState, clockPc, unfinished, extraPc, passVars, filterVars, rateVars, timeVars, storeVars>>

\* thread.join returns, because the thread has ended or because the 5 s
\* are over (the thread may sit in its 60 s wait or in future.result);
\* stop closes self.loop and returns
StopEnd ==
    /\ stopPc = "joining"
    /\ stopPc' = "none"
    /\ loopState' = CloseLoop(loopState)
    /\ UNCHANGED <<isRunning, clockPc, due, unfinished, jobs, extraPc, passVars, filterVars, rateVars, timeVars, storeVars>>

\* the steps of the second thread
ExtraDispatch(t) ==
    /\ isRunning
    /\ extraPc = "polling"
    /\ t \in due
    /\ loopState = "created"
    /\ unfinished[t] < MaxRuns
    /\ unfinished' = [unfinished EXCEPT ![t] = @ + 1]
    /\ extraPc' = t
    /\ UNCHANGED <<isRunning, loopState, clockPc, due, jobs, stopPc, passVars, filterVars, rateVars, timeVars, storeVars>>

ExtraTimeout(t) ==
    /\ extraPc = t
    /\ due' = AfterRun(due, t)
    /\ extraPc' = "polling"
    /\ UNCHANGED <<isRunning, loopState, clockPc, unfinished, jobs, stopPc, passVars, filterVars, rateVars, timeVars, storeVars>>

ExtraExit ==
    /\ extraPc = "polling"
    /\ ~isRunning
    /\ extraPc' = "off"
    /\ loopState' = CloseLoop(loopState)
    /\ UNCHANGED <<isRunning, clockPc, due, unfinished, jobs, stopPc, passVars, filterVars, rateVars, timeVars, storeVars>>

NextSched ==
    \/ \E t \in TaskNames : Register(t)
    \/ SchedulerStart
    \/ \E t \in TaskNames : TriggerDue(t)
    \/ \E t \in TaskNames : Dispatch(t)
    \/ \E t \in TaskNames : FutureTimeout(t)
    \/ ClockExit
    \/ StopBegin
    \/ StopEnd
    \/ \E t \in TaskNames : ExtraDispatch(t)
    \/ \E t \in TaskNames : ExtraTimeout(t)
    \/ ExtraExit

SpecSched == InitSched /\ [][NextSched]_vars

\* C7: no task ever has two invocations in flight: a new coroutine of a
\* task is handed to the loop only when its previous one has finished.
C7_NoOverlappingRuns == \A t \in TaskNames : unfinished[t] <= 1

\* C18: the body of a fired task is executed: whenever a coroutine has been
\* handed to the scheduler's event loop, that loop is running.
C18_FiredBodyExecutes ==
    \A t \in TaskNames : unfinished[t] > 0 => loopState = "running"

\* C19: the clock thread stays free to evaluate the other entries: no entry
\* is due while the thread is blocked in the wait for another entry's run.
C19_ClockFreeForOthers ==
    \A a, b \in TaskNames : (a # b /\ b \in due) => clockPc # a

\* C20: when the wait for a task's run ends at the ceiling, the clock thread
\* is back at polling, the task is no longer due and no new run of it has
\* been started.
C20_CeilingEndsRun ==
    [][\A t \in TaskNames :
         (clockPc = t /\ clockPc' # t)
            => /\ clockPc' = "polling"
               /\ t \notin due'
               /\ unfinished' = unfinished]_vars

\* a task whose first run ended at the ceiling has been fired again at its
\* next trigger
C20_Witness ==
    \E t \in TaskNames :
        /\ clockPc = t
        /\ t \in due
        /\ unfinished[t] = 2

\* C21: the failure of a run does not end the clock loop: when the wait for
\* a run ends, the thread is polling again, the scheduler is still running
\* with its event loop, and every job is still registered.
C21_FailureStaysInside ==
    [][\A t \in TaskNames :
         (clockPc = t /\ clockPc' # t)
            => /\ clockPc' = "polling"
               /\ isRunning' = isRunning
               /\ loopState' = loopState
               /\ jobs' = jobs]_vars

\* after a failed run of each task, the task that failed first is fired
\* once more
C21_Witness ==
    \E t \in TaskNames :
        /\ isRunning
        /\ clockPc = t
        /\ unfinished[t] = 2
        /\ \A u \in TaskNames : unfinished[u] >= 1
        /\ extraPc = "off"

\* C22: stop() leaves the execution context of an in-flight run alone: the
\* event loop is not closed while the clock thread waits for a run on it.
C22_StopKeepsContext ==
    clockPc \in TaskNames => loopState # "closed"

\* C26: whatever sequence of start() and stop(), at most one scheduler
\* thread is alive while the scheduler is running.
C26_OneClockLoop ==
    ~(isRunning /\ clockPc # "off" /\ extraPc # "off")

(***************************************************************************)
(* GitHubService._check_rate_limit and _make_request, called by several    *)
(* coroutines of one event loop.  Time is counted in units of which Hour   *)
(* make the 3600 seconds of the budget window.  A coroutine runs without   *)
(* interruption between two awaits: the check up to asyncio.sleep or up to *)
(* the request being sent is one step, the arrival of the response is the  *)
(* next.                                                                   *)
(***************************************************************************)
\* (now - self.last_reset).total_seconds() > 3600
WindowElapsed(clock, reset) == clock - reset > Hour

WaitTimeWholeHour(clock, reset) == Hour

\* wait_time = 3600 - (now - self.last_reset).total_seconds()
WaitTime(clock, reset) == Hour - (clock - reset)

\* self.requests_made += 1 is the first statement inside
\* "async with session.get(...) as response": it runs when a response has
\* arrived, and not when the request ended by a timeout
CountsResponse(status) == status # "timeout"

CanCall(c) == caller[c].pc \in {"idle", "returned", "raised"}

InitRate ==
    /\ PassOff
    /\ FilterOff
    /\ SchedOff
    /\ TimeOff
    /\ StoreOff
    /\ requests_made = 0
    /\ last_reset = 0
    /\ rNow = 0
    /\ caller = [c \in Callers |-> [NoCall EXCEPT !.pc = "idle"]]
    /\ attempts = 0
    /\ issued = 0

\* the clock advances; a timer of asyncio.sleep that is due fires first
RateTick ==
    /\ rNow < MaxRateClock
    /\ \A c \in Callers : caller[c].pc = "sleeping" => caller[c].wake > rNow
    /\ rNow' = rNow + 1
    /\ UNCHANGED <<requests_made, last_reset, caller, attempts, issued, passVars, filterVars, schedVars, timeVars, storeVars>>

\* _make_request calls _check_rate_limit, which either sleeps or returns;
\* in the latter case the request is sent
CheckRateLimit(c) ==
    /\ CanCall(c)
    /\ attempts < MaxCalls
    /\ attempts' = attempts + 1
    /\ LET elapsed == WindowElapsed(rNow, last_reset)
           made == IF elapsed THEN 0 ELSE requests_made
           reset == IF elapsed THEN rNow ELSE last_reset
           wait_time == WaitTime(rNow, reset)
       IN  /\ requests_made' = made
           /\ last_reset' = reset
           /\ IF made >= RateLimit /\ wait_time > 0
              THEN /\ caller' = [caller EXCEPT ![c] =
                                   [pc |-> "sleeping", wake |-> rNow + wait_time,
                                    status |-> "none", result |-> "none"]]
                   /\ issued' = IF elapsed THEN 0 ELSE issued
              ELSE /\ caller' = [caller EXCEPT ![c] =
                                   [pc |-> "requesting", wake |-> NoTime,
                                    status |-> "none", result |-> "none"]]
                   /\ issued' = IF elapsed THEN 1 ELSE issued + 1
    /\ UNCHANGED <<rNow, passVars, filterVars, schedVars, timeVars, storeVars>>

\* asyncio.sleep(wait_time) returns: the counter and the window are reset,
\* _check_rate_limit returns and the request is sent
WakeUp(c) ==
    /\ caller[c].pc = "sleeping"
    /\ rNow >= caller[c].wake
    /\ requests_made' = 0
    /\ last_reset' = rNow
    /\ issued' = 1
    /\ caller' = [caller EXCEPT ![c].pc = "requesting"]
    /\ UNCHANGED <<rNow, attempts, passVars, filterVars, schedVars, timeVars, storeVars>>

\* the request ends: a response of some status arrives, or the transport
\* times out
Respond(c) ==
    /\ caller[c].pc = "requesting"
    /\ \E status \in Statuses :
         /\ requests_made' = IF CountsResponse(status) THEN requests_made + 1 ELSE requests_made
         /\ caller' = [caller EXCEPT ![c] =
                         [pc |-> IF MakeRequest(status) = "json" THEN "returned" ELSE "raised",
                          wake |-> NoTime, status |-> status, result |-> MakeRequest(status)]]
    /\ UNCHANGED <<last_reset, rNow, attempts, issued, passVars, filterVars, schedVars, timeVars, storeVars>>

NextRate ==
    \/ RateTick
    \/ \E c \in Callers : CheckRateLimit(c)
    \/ \E c \in Callers : WakeUp(c)
    \/ \E c \in Callers : Respond(c)

SpecRate == InitRate /\ [][NextRate]_vars

C13_BudgetNeverExceeded == issued <= RateLimit

\* C14: every call attempt, whatever its outcome, adds exactly one to the
\* counter when it ends.
C14_EveryAttemptCounted ==
    [][\A c \in Callers :
         (caller[c].pc = "requesting" /\ caller'[c].pc \in {"returned", "raised"})
            => requests_made' = requests_made + 1]_vars

\* C15: two calls that failed for different reasons (different statuses, or
\* a status and a timeout) raised errors of different types.
C15_ErrorsAreTyped ==
    \A c, d \in Callers :
        (/\ caller[c].pc = "raised"
         /\ caller[d].pc = "raised"
         /\ caller[c].status # caller[d].status)
        => caller[c].result # caller[d].result

(***************************************************************************)
(* The timestamps of one subscription over successive passes: the          *)
(* checkpoint update_last_checked writes, the JSON file, from_dict, the     *)
(* effective since of fetch_updates and the comparisons of the list calls  *)
(***************************************************************************)
\* parse_github_datetime / fromisoformat of an upstream 'Z' timestamp
ParseGithubDatetime(instant) == [wall |-> instant, tz |-> "utc"]

\* get_recent_*: the records created at or after since, since read as UTC
FetchedSince(records, since) == {r \in records : r >= EnsureUtcDatetime(since).wall}

\* the since / until values handed to a list call: the aware value the CLI and
\* the web handlers build, and the effective since of the pass
ListArguments == {NowUtc(tNow), tSince}

InitTime ==
    /\ PassOff
    /\ FilterOff
    /\ SchedOff
    /\ RateOff
    /\ StoreOff
    /\ zone \in {0, ZoneShift}
    /\ tNow = 0
    /\ tFile = JsonNull
    /\ tSaved = NoStamp
    /\ tSub = NoStamp
    /\ tSince = NoStamp
    /\ tDays = 0
    /\ tCmp = "none"
    /\ upstream = {}
    /\ returned = {}
    /\ tPc = "idle"

\* time passes
TimeTick ==
    /\ tNow < MaxT
    /\ tNow' = tNow + 1
    /\ UNCHANGED <<zone, tFile, tSaved, tSub, tSince, tDays, tCmp, upstream, returned, tPc,
                   passVars, filterVars, schedVars, rateVars, storeVars>>

\* upstream gets a new record
CreateUpstream ==
    /\ tNow \notin upstream
    /\ upstream' = upstream \cup {tNow}
    /\ UNCHANGED <<zone, tNow, tFile, tSaved, tSub, tSince, tDays, tCmp, returned, tPc,
                   passVars, filterVars, schedVars, rateVars, storeVars>>

\* get_subscriptions_by_frequency: _load_subscriptions builds the Subscription
LoadSubscription ==
    /\ tPc = "idle"
    /\ tSub' = FromDictLastChecked(tFile)
    /\ tPc' = "loaded"
    /\ UNCHANGED <<zone, tNow, tFile, tSaved, tSince, tDays, tCmp, upstream, returned,
                   passVars, filterVars, schedVars, rateVars, storeVars>>

\* fetch_updates and _fetch_single_repo_updates of the subscription
FetchUpdates(kind) ==
    /\ tPc = "loaded"
    /\ tDays' = DaySpan(kind)
    /\ tSince' = EffectiveSince(tSub, DefaultSince(tNow, zone, DaySpan(kind)))
    /\ returned' = FetchedSince(upstream, tSince')
    /\ tPc' = "fetched"
    /\ UNCHANGED <<zone, tNow, tFile, tSaved, tSub, tCmp, upstream,
                   passVars, filterVars, schedVars, rateVars, storeVars>>

\* update_last_checked: last_checked = datetime.now(), then _save_subscriptions
TimeCheckpoint ==
    /\ tPc = "fetched"
    /\ tSaved' = NowLocal(tNow, zone)
    /\ tFile' = ToDictLastChecked(tSaved')
    /\ tPc' = "idle"
    /\ UNCHANGED <<zone, tNow, tSub, tSince, tDays, tCmp, upstream, returned,
                   passVars, filterVars, schedVars, rateVars, storeVars>>

\* the pass ends without update_last_checked
TimeSkip ==
    /\ tPc = "fetched"
    /\ tPc' = "idle"
    /\ UNCHANGED <<zone, tNow, tFile, tSaved, tSub, tSince, tDays, tCmp, upstream, returned,
                   passVars, filterVars, schedVars, rateVars, storeVars>>

\* get_pull_requests: updated_at < since on the argument as it was passed
GetPullRequests ==
    /\ tPc = "fetched"
    /\ \E item \in upstream, since \in ListArguments :
          tCmp' = LessThan(ParseGithubDatetime(item), since)
    /\ UNCHANGED <<zone, tNow, tFile, tSaved, tSub, tSince, tDays, upstream, returned, tPc,
                   passVars, filterVars, schedVars, rateVars, storeVars>>

\* get_issues: updated_at > until after until = ensure_utc_datetime(until)
GetIssues ==
    /\ tPc = "fetched"
    /\ \E item \in upstream, until \in ListArguments :
          tCmp' = LessThan(EnsureUtcDatetime(until), ParseGithubDatetime(item))
    /\ UNCHANGED <<zone, tNow, tFile, tSaved, tSub, tSince, tDays, upstream, returned, tPc,
                   passVars, filterVars, schedVars, rateVars, storeVars>>

NextTime ==
    \/ TimeTick
    \/ CreateUpstream
    \/ LoadSubscription
    \/ \E kind \in {"daily", "weekly"} : FetchUpdates(kind)
    \/ TimeCheckpoint
    \/ TimeSkip
    \/ GetPullRequests
    \/ GetIssues

SpecTime == InitTime /\ [][NextTime]_vars

\* C23: the effective since of a subscription's kind fetches is its
\* last_checked when that is set, and otherwise the default since of the
\* pass, the clock reading minus the day span of the pass
C23_EffectiveSince ==
    [][(tPc = "loaded" /\ tPc' = "fetched")
          => tSince' = IF tSub # NoStamp THEN tSub
                       ELSE [wall |-> NowLocal(tNow, zone).wall - 24 * tDays', tz |-> "naive"]]_vars

\* C23 witness: a subscription checkpointed by an earlier pass was loaded again
\* and its fetch uses the loaded last_checked
C23_Witness ==
    /\ tPc = "fetched"
    /\ tSaved # NoStamp
    /\ tSub # NoStamp
    /\ tSince = tSub

C25_RoundTripKeepsInstant ==
    tSaved # NoStamp
       => Instant(FromDictLastChecked(ToDictLastChecked(tSaved)), zone) = Instant(tSaved, zone)

\* C27: on a machine in UTC, every upstream record created after the
\* effective since of a finished pass was returned by it or was created at or
\* after the last_checked the subscription now carries
C27_NoUpdateMissed ==
    (zone = 0 /\ tPc = "idle" /\ tSaved # NoStamp)
       => \A r \in upstream :
             r > EnsureUtcDatetime(tSince).wall
                => r \in returned \/ r >= FromDictLastChecked(tFile).wall

(***************************************************************************)
(* The checkpoint at the end of a scan (specification Spec)                *)
(***************************************************************************)
\* C28: a scan ends only after the checkpoint of every subscription of its
\* batch whose fetch completed without error was written, also when the pass
\* found no update and when the report or the notification failed
C28_SuccessfulFetchCheckpointed ==
    [][(phase # "idle" /\ phase' = "idle")
          => \A id \in BatchIds :
                (task[id].pc = "done" /\ ~task[id].failed) => phase = "checkpointed"]_vars

(***************************************************************************)
(* The store operations as the execution contexts run them: each loads the *)
(* file, changes the loaded list and saves it, with no lock in between     *)
(***************************************************************************)
\* the method a context runs on the list it loaded
RunMethod(call) ==
    CASE call.op = "add" -> AddSubscription(call.loaded, call.sub)
      [] call.op = "update" -> UpdateSubscription(call.loaded, call.sub)
      [] call.op = "deactivate" -> DeactivateSubscription(call.loaded, call.id)
      [] call.op = "delete" -> DeleteSubscription(call.loaded, call.id)
      [] OTHER -> UpdateLastCheckedIn(call.loaded, call.ids)

ActiveIds(subs) == {subs[i].id : i \in {j \in 1..Len(subs) : subs[j].is_active}}

\* the calls a context may make: the pass checkpoints the active
\* subscriptions; a handler adds a new subscription, or updates, deactivates
\* or deletes one by id
Calls(c) ==
    IF c = "scheduler"
    THEN IF ActiveIds(data_file) = {} THEN {}
         ELSE {[NoOp EXCEPT !.op = "update_last_checked", !.ids = ActiveIds(data_file)]}
    ELSE (IF nextId > MaxSubs THEN {}
          ELSE {[NoOp EXCEPT !.op = "add", !.sub = StoredSubscription(nextId, repo)] :
                   repo \in Repos})
         \cup {[NoOp EXCEPT !.op = "update",
                            !.sub = [data_file[i] EXCEPT !.owner = repo[1],
                                                         !.repo_name = repo[2],
                                                         !.is_active = active]] :
                  i \in 1..Len(data_file), repo \in Repos, active \in BOOLEAN}
         \cup {[NoOp EXCEPT !.op = op, !.id = id] :
                  op \in {"deactivate", "delete"}, id \in 1..(nextId - 1)}

InitStore ==
    /\ PassOff
    /\ FilterOff
    /\ SchedOff
    /\ RateOff
    /\ TimeOff
    /\ data_file = <<>>
    /\ nextId = 1
    /\ ctx = [c \in Contexts |-> [NoOp EXCEPT !.pc = "idle"]]
    /\ acked = {}

\* the method is entered and _load_subscriptions returns
LoadSubscriptions(c) ==
    /\ ctx[c].pc = "idle"
    /\ \E call \in Calls(c) :
          /\ ctx' = [ctx EXCEPT ![c] = [call EXCEPT !.pc = "loaded", !.loaded = data_file]]
          /\ nextId' = IF call.op = "add" THEN nextId + 1 ELSE nextId
          /\ acked' = IF call.op = "delete" THEN acked \ {call.id} ELSE acked
    /\ UNCHANGED <<data_file, passVars, filterVars, schedVars, rateVars, timeVars>>

\* the rest of the method: the change of the loaded list, _save_subscriptions
\* when the method saves, and the return
SaveSubscriptions(c) ==
    /\ ctx[c].pc = "loaded"
    /\ LET out == RunMethod(ctx[c])
       IN  /\ data_file' = IF out.save THEN out.subs ELSE data_file
           /\ acked' = IF ctx[c].op = "add" /\ out.ok
                       THEN acked \cup {ctx[c].sub.id} ELSE acked
    /\ ctx' = [ctx EXCEPT ![c] = [NoOp EXCEPT !.pc = "idle"]]
    /\ UNCHANGED <<nextId, passVars, filterVars, schedVars, rateVars, timeVars>>

NextStore ==
    \/ \E c \in Contexts : LoadSubscriptions(c)
    \/ \E c \in Contexts : SaveSubscriptions(c)

SpecStore == InitStore /\ [][NextStore]_vars

\* C29: the store never holds two subscriptions with the same id, nor two
\* active subscriptions of the same (owner, repo_name)
C29_UniqueSubscriptions ==
    \A i, j \in 1..Len(data_file) :
        i # j => /\ data_file[i].id # data_file[j].id
                 /\ ~ /\ data_file[i].is_active
                      /\ data_file[j].is_active
                      /\ data_file[i].owner = data_file[j].owner
                      /\ data_file[i].repo_name = data_file[j].repo_name

\* C30: a subscription whose add_subscription returned True, and which no
\* delete_subscription call named since, is in the stored list
C30_NoLostWrite == acked \subseteq IdsOf(data_file)
====
